---- MODULE Spec2Model ----
(***************************************************************************)
(* ezdma: zero-copy DMA between a user buffer and a dmaengine channel      *)
(* through a blocking character device (drivers/dma/ezdma.c).              *)
(*                                                                         *)
(* One device instance (struct ezdma_drvdata) is modelled, together with   *)
(* the caller threads that enter its file operations (open, read, write,   *)
(* release), the dmaengine channel and the completion tasklet.  The file   *)
(* operations are split at the points where the code can block or take a   *)
(* lock; every spinlock critical section is a lock step followed by one    *)
(* step for its body and unlock.  Results of kernel services (kmalloc,     *)
(* sg_alloc_table, get_user_pages_fast, dma_map_sg, the dmaengine calls)   *)
(* are chosen nondeterministically among the values their interface allows.*)
(***************************************************************************)
EXTENDS Integers, Sequences, FiniteSets, TLC

(* ---------------------------------------------------------------- bounds *)
NThreads == 2
MaxCount == 2
\* The page size of the model (4096 on the target); lengths are in bytes.
PAGE_SIZE == 2
\* The most entries the "dma-names" property holds.
MaxChannels == 3
\* The longest request and the largest buffer address of the scatterlist construction.
SgMaxCount == 9
SgMaxBuf == 5

(* ------------------------------------------------------ program constants *)
EZDMA_ALIGN_BYTES == 1
EZDMA_DEV_TO_CPU == 1
EZDMA_CPU_TO_DEV == 2
EINVAL == 22
ERESTARTSYS == 512
EBADF == 9
ENOMEM == 12
EBUSY == 16
EFAULT == 14
ENODEV == 19
EPROBE_DEFER == 517

Threads == 1..NThreads
NoThread == 0
CB == NThreads + 1          \* the tasklet context, as a holder of state_lock
MaxPages == (PAGE_SIZE - 1 + MaxCount + PAGE_SIZE - 1) \div PAGE_SIZE
PageIdx == 1..MaxPages

VARIABLES
    p_info,     \* struct ezdma_drvdata: dir, sem, in_use, accepting, state_lock, state, inflight
    hw,         \* the dmaengine channel: the active descriptor and the completion tasklet
    mm,         \* the pages of the buffer of the transfer context: the thread that set the
                \* context up, the references the driver holds on each page, the dirty marks
    thr,        \* per caller thread: position in the file operation and its locals
    req,        \* the request the callers issue: [count, userbuf], fixed for a behaviour
    files,      \* open struct files of the device (opens that succeeded and are not released)
    unmap_busy, \* the most recent teardown unmapped or released while the engine was active
    dt,         \* the device tree node: per "dma-names" index, what its entry holds
    probe,      \* create_devices: position, dma_name_idx, outer_rv and the ezdma_list
    sg          \* the scatterlist construction on its own: position, num_pages, sgl

vars == <<p_info, hw, mm, thr, req, files, unmap_busy, dt, probe, sg>>

(* ------------------------------------------------------------ data model *)
\* memset( &p_info->inflight, 0, ... ); also the kzalloc'ed initial value.
ZeroInflight ==
    [ pinned_pages    |-> "NULL",
      page_array      |-> << >>,
      sgl             |-> << >>,
      num_pages       |-> 0,
      table_allocated |-> FALSE,
      pages_pinned    |-> FALSE,
      dma_mapped      |-> FALSE,
      dma_started     |-> FALSE ]

ZeroThread ==
    [ pc |-> "idle", op |-> "none",
      rv |-> 0, p_rv |-> 0, prep_rv |-> 0, wait_rv |-> 0,
      failed |-> FALSE,       \* a step of ezdma_prepare_for_dma failed in this call
      waited |-> FALSE,       \* this call reached wait_event_interruptible
      hw_done |-> FALSE,      \* the engine finished the transfer this call submitted
      signalled |-> FALSE,    \* the callback moved the state to DMA_COMPLETING while
                              \* this call waited on its transfer
      terminated |-> FALSE ]  \* this call invoked dmaengine_terminate_all

ZeroBuffer == [ owner |-> NoThread, pins |-> [i \in PageIdx |-> 0], dirty |-> {} ]

offset_in_page(userbuf) == userbuf % PAGE_SIZE

\* NumPages without the offset of the buffer in its first page.
NumPages_ignores_offset(userbuf, count) == (count + PAGE_SIZE - 1) \div PAGE_SIZE

\* p_info->inflight.num_pages = (offset_in_page(userbuf) + count + PAGE_SIZE-1) / PAGE_SIZE
NumPages(userbuf, count) ==
    (offset_in_page(userbuf) + count + PAGE_SIZE - 1) \div PAGE_SIZE

\* The for_each_sg loop: entry i (from 0) with left_to_map bytes still to map.
RECURSIVE BuildSgFrom(_, _, _, _, _)
BuildSgFrom(i, num_pages, left_to_map, userbuf, pages) ==
    IF i >= num_pages THEN << >>
    ELSE LET len0   == IF left_to_map > PAGE_SIZE THEN PAGE_SIZE ELSE left_to_map
             offset == IF i = 0 THEN offset_in_page(userbuf) ELSE 0
             len    == IF i = 0 /\ offset + len0 > PAGE_SIZE
                       THEN PAGE_SIZE - offset ELSE len0
         IN  << [page |-> pages[i + 1], length |-> len, offset |-> offset] >>
             \o BuildSgFrom(i + 1, num_pages, left_to_map - len, userbuf, pages)

\* The for_each_sg loop without the clamp of the first entry at the page end.
RECURSIVE BuildSgFrom_no_clamp(_, _, _, _, _)
BuildSgFrom_no_clamp(i, num_pages, left_to_map, userbuf, pages) ==
    IF i >= num_pages THEN << >>
    ELSE LET len    == IF left_to_map > PAGE_SIZE THEN PAGE_SIZE ELSE left_to_map
             offset == IF i = 0 THEN offset_in_page(userbuf) ELSE 0
         IN  << [page |-> pages[i + 1], length |-> len, offset |-> offset] >>
             \o BuildSgFrom_no_clamp(i + 1, num_pages, left_to_map - len, userbuf, pages)

BuildScatterlist_no_clamp(num_pages, count, userbuf, pages) ==
    BuildSgFrom_no_clamp(0, num_pages, count, userbuf, pages)

BuildScatterlist(num_pages, count, userbuf, pages) ==
    BuildSgFrom(0, num_pages, count, userbuf, pages)

(* -------------------------------------------------- kernel services used *)
\* A world is the device, the channel and the page accounting together, so
\* that a routine of the driver is a function from world to world.
World == [ p |-> p_info, hw |-> hw, mm |-> mm, unmap_busy |-> unmap_busy ]

\* put_page( page ), after set_page_dirty( page ) when mark is set.
PutPage(m, page, mark) ==
    [m EXCEPT !.pins[page] = @ - 1,
              !.dirty = IF mark THEN @ \cup {page} ELSE @]

RECURSIVE PutPages(_, _, _)
PutPages(m, page_array, mark) ==
    IF page_array = << >> THEN m
    ELSE PutPages(PutPage(m, Head(page_array), mark), Tail(page_array), mark)

\* get_user_pages_fast() pinning the first n pages of the buffer.
RECURSIVE GetPages(_, _)
GetPages(m, n) ==
    IF n = 0 THEN m
    ELSE GetPages([m EXCEPT !.pins[n] = @ + 1], n - 1)

\* dmaengine_terminate_all( p_info->chan ): the active descriptor is dropped;
\* a completion tasklet that is already scheduled still runs.
dmaengine_terminate_all(h) == [h EXCEPT !.active = FALSE, !.owner = NoThread]

(* ---------------------------------------------------------------- teardown *)
\* ezdma_unprepare_after_dma that leaves the pages_pinned flag set.
ezdma_unprepare_after_dma_keeps_pages_pinned(w) ==
    LET inf      == w.p.inflight
        unmaps   == inf.dma_mapped
        releases == inf.pages_pinned /\ inf.dma_started /\ w.p.dir = EZDMA_DEV_TO_CPU
        mm1      == IF releases THEN PutPages(w.mm, inf.page_array, TRUE) ELSE w.mm
        inf1     == [inf EXCEPT !.dma_mapped = FALSE,
                                !.sgl = IF inf.table_allocated THEN << >> ELSE @,
                                !.table_allocated = FALSE,
                                !.pinned_pages = "NULL"]
    IN  [w EXCEPT !.p.state = "DMA_IDLE",
                  !.p.inflight = inf1,
                  !.mm = mm1,
                  !.unmap_busy = w.hw.active /\ (unmaps \/ releases)]

\* ezdma_unprepare_after_dma( p_info )
ezdma_unprepare_after_dma(w) ==
    LET inf      == w.p.inflight
        unmaps   == inf.dma_mapped
        releases == inf.pages_pinned /\ inf.dma_started /\ w.p.dir = EZDMA_DEV_TO_CPU
        mm1      == IF releases THEN PutPages(w.mm, inf.page_array, TRUE) ELSE w.mm
        inf1     == [inf EXCEPT !.dma_mapped = FALSE,
                                !.pages_pinned = FALSE,
                                !.sgl = IF inf.table_allocated THEN << >> ELSE @,
                                !.table_allocated = FALSE,
                                !.page_array = IF inf.pinned_pages # "NULL" THEN << >> ELSE @,
                                !.pinned_pages = "NULL"]
    IN  [w EXCEPT !.p.state = "DMA_IDLE",
                  !.p.inflight = inf1,
                  !.mm = mm1,
                  !.unmap_busy = w.hw.active /\ (unmaps \/ releases)]

(* -------------------------------------------------------------------- Init *)
\* No scatterlist construction is under way.
NoSg == [ pc |-> "idle", num_pages |-> 0, sgl |-> << >> ]

\* One device as create_devices leaves it (in_use = 0, state = DMA_IDLE,
\* sema_init( &p_info->sem, 1 )), created from one valid entry of direction d.
DeviceInit(d) ==
    /\ p_info = [ dir |-> d, sem |-> 1, in_use |-> FALSE, accepting |-> FALSE,
                  state_lock |-> NoThread, state |-> "DMA_IDLE",
                  inflight |-> ZeroInflight ]
    /\ hw = [ active |-> FALSE, owner |-> NoThread, tasklet |-> FALSE ]
    /\ mm = ZeroBuffer
    /\ thr = [t \in Threads |-> ZeroThread]
    /\ files = 0
    /\ unmap_busy = FALSE

Init ==
    /\ \E d \in {EZDMA_DEV_TO_CPU, EZDMA_CPU_TO_DEV} : DeviceInit(d)
    /\ req \in [count : 1..MaxCount, userbuf : 0..(PAGE_SIZE - 1)]
    /\ dt = << "ok" >>
    /\ probe = [ pc |-> "done", dma_name_idx |-> 1, outer_rv |-> 0, rv |-> 0,
                 ezdma_list |-> << [ezdma_dev |-> TRUE, chan |-> TRUE,
                                    registered |-> TRUE, chan_held |-> TRUE] >> ]
    /\ sg = NoSg

\* A call that has reached its return statement returns before any other step
\* is taken: a state with pc = "ret" is the instant at which that call returns.
Returning == \E t \in Threads : thr[t].pc = "ret"
Running == ~Returning

\* Commit a world computed by a routine of the driver.
Commit(w) ==
    /\ p_info' = w.p
    /\ hw' = w.hw
    /\ mm' = w.mm
    /\ unmap_busy' = w.unmap_busy

(* -------------------------------------------------------------- ezdma_open *)
OpenCall(t) ==
    /\ Running
    /\ thr[t].pc = "idle"
    /\ thr' = [thr EXCEPT ![t] = [ZeroThread EXCEPT !.pc = "open_down", !.op = "open"]]
    /\ UNCHANGED <<sg, dt, probe, req, p_info, hw, mm, files, unmap_busy>>

\* down_interruptible( &p_info->sem ) returning 0
OpenDown(t) ==
    /\ Running
    /\ thr[t].pc = "open_down"
    /\ p_info.sem > 0
    /\ p_info' = [p_info EXCEPT !.sem = @ - 1]
    /\ thr' = [thr EXCEPT ![t].pc = "open_body"]
    /\ UNCHANGED <<sg, dt, probe, req, hw, mm, files, unmap_busy>>

\* down_interruptible() interrupted by a signal while it waits for the semaphore
OpenInterrupted(t) ==
    /\ Running
    /\ thr[t].pc = "open_down"
    /\ p_info.sem = 0
    /\ thr' = [thr EXCEPT ![t].pc = "ret", ![t].rv = -ERESTARTSYS]
    /\ UNCHANGED <<sg, dt, probe, req, p_info, hw, mm, files, unmap_busy>>

\* ezdma_open_body without the in_use test.
ezdma_open_body_no_busy_test(p) ==
    [p |-> [p EXCEPT !.in_use = TRUE, !.accepting = TRUE, !.sem = @ + 1], rv |-> 0]

\* The body of ezdma_open under the semaphore, with up(): the device after
\* it and the value returned.
ezdma_open_body(p) ==
    IF p.in_use
    THEN [p |-> [p EXCEPT !.sem = @ + 1], rv |-> -EBUSY]
    ELSE [p |-> [p EXCEPT !.in_use = TRUE, !.accepting = TRUE, !.sem = @ + 1], rv |-> 0]

\* An open that returns 0 leaves the caller with an open file of the device.
OpenBody(t) ==
    /\ Running
    /\ thr[t].pc = "open_body"
    /\ p_info' = ezdma_open_body(p_info).p
    /\ thr' = [thr EXCEPT ![t].pc = "ret", ![t].rv = ezdma_open_body(p_info).rv]
    /\ files' = IF ezdma_open_body(p_info).rv = 0 THEN files + 1 ELSE files
    /\ UNCHANGED <<sg, dt, probe, req, hw, mm, unmap_busy>>

(* ------------------------------------------------ ezdma_read / ezdma_write *)
\* rw_rejected without the direction test.
rw_rejected_no_direction_test(dir, op, count) == count % EZDMA_ALIGN_BYTES # 0

\* The direction and alignment tests at the head of ezdma_read / ezdma_write:
\* TRUE when the request is refused with -EINVAL.
rw_rejected(dir, op, count) ==
    \/ (op = "read"  /\ dir # EZDMA_DEV_TO_CPU)
    \/ (op = "write" /\ dir # EZDMA_CPU_TO_DEV)
    \/ count % EZDMA_ALIGN_BYTES # 0

\* Entry of read(2)/write(2) on the open file: ssize_t rv = count, then the tests.
RwCall(t) ==
    /\ Running
    /\ thr[t].pc = "idle"
    /\ files > 0
    /\ \E o \in {"read", "write"} :
         thr' = [thr EXCEPT ![t] =
                   [ZeroThread EXCEPT !.op = o,
                       !.rv = IF rw_rejected(p_info.dir, o, req.count)
                              THEN -EINVAL ELSE req.count,
                       !.pc = IF rw_rejected(p_info.dir, o, req.count)
                              THEN "ret" ELSE "rw_down"]]
    /\ UNCHANGED <<sg, dt, probe, req, p_info, hw, mm, files, unmap_busy>>

\* down_interruptible( &p_info->sem ) returning 0
RwDown(t) ==
    /\ Running
    /\ thr[t].pc = "rw_down"
    /\ p_info.sem > 0
    /\ p_info' = [p_info EXCEPT !.sem = @ - 1]
    /\ thr' = [thr EXCEPT ![t].pc = "rw_accepting"]
    /\ UNCHANGED <<sg, dt, probe, req, hw, mm, files, unmap_busy>>

\* rw_down_interrupted that goes on to the accepting test as if it held the semaphore.
rw_down_interrupted_goes_on(th) == [th EXCEPT !.pc = "rw_accepting"]

\* if ( down_interruptible( &p_info->sem ) ) return -ERESTARTSYS;
rw_down_interrupted(th) == [th EXCEPT !.pc = "ret", !.rv = -ERESTARTSYS]

\* down_interruptible() interrupted by a signal while it waits for the semaphore
RwInterrupted(t) ==
    /\ Running
    /\ thr[t].pc = "rw_down"
    /\ p_info.sem = 0
    /\ thr' = [thr EXCEPT ![t] = rw_down_interrupted(thr[t])]
    /\ UNCHANGED <<sg, dt, probe, req, p_info, hw, mm, files, unmap_busy>>

\* accepting_test that never refuses.
accepting_test_always_accepts(th, accepting) == [th EXCEPT !.pc = "prep_alloc"]

\* if ( !atomic_read(&p_info->accepting ) ) { rv = -EBADF; goto out; }
accepting_test(th, accepting) ==
    IF ~accepting
    THEN [th EXCEPT !.rv = -EBADF, !.pc = "rw_out"]
    ELSE [th EXCEPT !.pc = "prep_alloc"]

RwAccepting(t) ==
    /\ Running
    /\ thr[t].pc = "rw_accepting"
    /\ thr' = [thr EXCEPT ![t] = accepting_test(thr[t], p_info.accepting)]
    /\ UNCHANGED <<sg, dt, probe, req, p_info, hw, mm, files, unmap_busy>>

(* ----------------------------------------------------- ezdma_prepare_for_dma *)
\* BUG_ON( p_info->inflight.pinned_pages ): the thread dies holding the semaphore.
PrepBug(t) ==
    /\ Running
    /\ thr[t].pc = "prep_alloc"
    /\ p_info.inflight.pinned_pages # "NULL"
    /\ thr' = [thr EXCEPT ![t].pc = "BUG"]
    /\ UNCHANGED <<sg, dt, probe, req, p_info, hw, mm, files, unmap_busy>>

\* memset, num_pages, kmalloc of the page array
PrepAlloc(t) ==
    /\ Running
    /\ thr[t].pc = "prep_alloc"
    /\ p_info.inflight.pinned_pages = "NULL"
    /\ \E ok \in BOOLEAN :
         LET n == NumPages(req.userbuf, req.count) IN
         IF ok
         THEN /\ p_info' = [p_info EXCEPT !.inflight =
                   [ZeroInflight EXCEPT !.num_pages = n, !.pinned_pages = "array",
                                        !.page_array = [i \in 1..n |-> 0]]]
              /\ thr' = [thr EXCEPT ![t].pc = "prep_sg_alloc"]
         ELSE /\ p_info' = [p_info EXCEPT !.inflight =
                   [ZeroInflight EXCEPT !.num_pages = n]]
              /\ thr' = [thr EXCEPT ![t].pc = "err_out", ![t].p_rv = -ENOMEM,
                                    ![t].failed = TRUE]
    /\ mm' = [ZeroBuffer EXCEPT !.owner = t]
    /\ UNCHANGED <<sg, dt, probe, req, hw, files, unmap_busy>>

\* sg_alloc_table( &p_info->inflight.table, num_pages, GFP_KERNEL )
PrepSgAlloc(t) ==
    /\ Running
    /\ thr[t].pc = "prep_sg_alloc"
    /\ \E r \in {0, -ENOMEM} :
         IF r # 0
         THEN /\ thr' = [thr EXCEPT ![t].pc = "err_out", ![t].p_rv = r,
                                    ![t].failed = TRUE]
              /\ UNCHANGED p_info
         ELSE /\ p_info' = [p_info EXCEPT !.inflight.table_allocated = TRUE]
              /\ thr' = [thr EXCEPT ![t].pc = "prep_pin", ![t].p_rv = r]
    /\ UNCHANGED <<sg, dt, probe, req, hw, mm, files, unmap_busy>>

\* The values get_user_pages_fast() may return for num_pages >= 1: an errno
\* when no page was pinned, else the number of pages pinned.
GupResults(num_pages) == {-EFAULT} \cup 1..num_pages

\* rv = get_user_pages_fast(...); if ( rv != num_pages ) goto err_out;
PrepPin(t) ==
    /\ Running
    /\ thr[t].pc = "prep_pin"
    /\ \E r \in GupResults(p_info.inflight.num_pages) :
         LET n      == p_info.inflight.num_pages
             pinned == IF r > 0 THEN r ELSE 0
             arr    == [i \in 1..n |-> IF i <= pinned THEN i ELSE 0]
         IN  /\ mm' = GetPages(mm, pinned)
             /\ IF r # n
                THEN /\ p_info' = [p_info EXCEPT !.inflight.page_array = arr]
                     /\ thr' = [thr EXCEPT ![t].pc = "err_out", ![t].p_rv = r,
                                           ![t].failed = TRUE]
                ELSE /\ p_info' = [p_info EXCEPT !.inflight.page_array = arr,
                                                 !.inflight.pages_pinned = TRUE]
                     /\ thr' = [thr EXCEPT ![t].pc = "prep_map", ![t].p_rv = r]
    /\ UNCHANGED <<sg, dt, probe, req, hw, files, unmap_busy>>

\* The values dma_map_sg() may return: 0 on failure, else the number of
\* entries mapped, which is at most the number given.
DmaMapResults(num_pages) == 0..num_pages

\* Build the scatterlist, then rv = dma_map_sg(...); if ( rv != num_pages ) goto err_out;
PrepMap(t) ==
    /\ Running
    /\ thr[t].pc = "prep_map"
    /\ \E r \in DmaMapResults(p_info.inflight.num_pages) :
         LET inf == p_info.inflight
             sgl == BuildScatterlist(inf.num_pages, req.count, req.userbuf,
                                     inf.page_array)
         IN  IF r # inf.num_pages
             THEN /\ p_info' = [p_info EXCEPT !.inflight.sgl = sgl]
                  /\ thr' = [thr EXCEPT ![t].pc = "err_out", ![t].p_rv = r,
                                        ![t].failed = TRUE]
             ELSE /\ p_info' = [p_info EXCEPT !.inflight.sgl = sgl,
                                              !.inflight.dma_mapped = TRUE]
                  /\ thr' = [thr EXCEPT ![t].pc = "prep_desc", ![t].p_rv = r]
    /\ UNCHANGED <<sg, dt, probe, req, hw, mm, files, unmap_busy>>

\* txn_desc = dmaengine_prep_slave_sg(...); if ( !txn_desc ) { rv = -ENOMEM; goto err_out; }
PrepDesc(t) ==
    /\ Running
    /\ thr[t].pc = "prep_desc"
    /\ \E ok \in BOOLEAN :
         thr' = [thr EXCEPT ![t] =
                   IF ok THEN [@ EXCEPT !.pc = "submit_lock"]
                   ELSE [@ EXCEPT !.pc = "err_out", !.p_rv = -ENOMEM,
                                  !.failed = TRUE]]
    /\ UNCHANGED <<sg, dt, probe, req, p_info, hw, mm, files, unmap_busy>>

\* spin_lock_irq( &p_info->state_lock ) before the submission
SubmitLock(t) ==
    /\ Running
    /\ thr[t].pc = "submit_lock"
    /\ p_info.state_lock = NoThread
    /\ p_info' = [p_info EXCEPT !.state_lock = t]
    /\ thr' = [thr EXCEPT ![t].pc = "submit"]
    /\ UNCHANGED <<sg, dt, probe, req, hw, mm, files, unmap_busy>>

\* The values dmaengine_submit() may return: a cookie (>= DMA_MIN_COOKIE) or an errno.
SubmitResults == {1, -EBUSY}

\* submit_section that does not record that the transfer was started.
submit_section_not_started(w, t, cookie) ==
    IF cookie < 1
    THEN [w EXCEPT !.p.state = "DMA_IDLE", !.p.state_lock = NoThread]
    ELSE [w EXCEPT !.p.state = "DMA_IN_FLIGHT",
                   !.hw.active = TRUE, !.hw.owner = t,
                   !.p.state_lock = NoThread]

\* The critical section of the submission, for the cookie dmaengine_submit() returned.
submit_section(w, t, cookie) ==
    IF cookie < 1
    THEN [w EXCEPT !.p.state = "DMA_IDLE", !.p.state_lock = NoThread]
    ELSE [w EXCEPT !.p.state = "DMA_IN_FLIGHT",
                   !.p.inflight.dma_started = TRUE,
                   !.hw.active = TRUE, !.hw.owner = t,
                   !.p.state_lock = NoThread]

Submit(t) ==
    /\ Running
    /\ thr[t].pc = "submit"
    /\ \E cookie \in SubmitResults :
         /\ Commit(submit_section(World, t, cookie))
         /\ thr' = [thr EXCEPT ![t] =
                      IF cookie < 1
                      THEN [@ EXCEPT !.pc = "err_out", !.p_rv = cookie,
                                     !.failed = TRUE]
                      ELSE [@ EXCEPT !.pc = "prep_ret", !.prep_rv = 0, !.p_rv = 0]]
    /\ UNCHANGED <<sg, dt, probe, req, files>>

\* err_out: spin_lock_irq( &p_info->state_lock )
ErrOutLock(t) ==
    /\ Running
    /\ thr[t].pc = "err_out"
    /\ p_info.state_lock = NoThread
    /\ p_info' = [p_info EXCEPT !.state_lock = t]
    /\ thr' = [thr EXCEPT ![t].pc = "err_unprepare"]
    /\ UNCHANGED <<sg, dt, probe, req, hw, mm, files, unmap_busy>>

\* ezdma_unprepare_after_dma( p_info ); spin_unlock_irq(); return rv;
err_out_section(w) ==
    [ezdma_unprepare_after_dma(w) EXCEPT !.p.state_lock = NoThread]

ErrOutUnprepare(t) ==
    /\ Running
    /\ thr[t].pc = "err_unprepare"
    /\ Commit(err_out_section(World))
    /\ thr' = [thr EXCEPT ![t].pc = "prep_ret", ![t].prep_rv = thr[t].p_rv, ![t].p_rv = 0]
    /\ UNCHANGED <<sg, dt, probe, req, files>>

(* ------------------------------------- ezdma_read / ezdma_write, continued *)
\* if (prep_rv) { rv = prep_rv; goto out; }  up( &p_info->sem );
prep_returned(th) ==
    IF th.prep_rv # 0
    THEN [th EXCEPT !.rv = th.prep_rv, !.prep_rv = 0, !.pc = "rw_out"]
    ELSE [th EXCEPT !.pc = "rw_wait", !.waited = TRUE]

PrepReturn(t) ==
    /\ Running
    /\ thr[t].pc = "prep_ret"
    /\ thr' = [thr EXCEPT ![t] = prep_returned(thr[t])]
    /\ p_info' = IF thr'[t].pc = "rw_wait" THEN [p_info EXCEPT !.sem = @ + 1] ELSE p_info
    /\ UNCHANGED <<sg, dt, probe, req, hw, mm, files, unmap_busy>>

\* check_not_in_flight(): the state read under state_lock
check_not_in_flight(p) == p.state # "DMA_IN_FLIGHT"

\* wait_event_interruptible() returning 0: the condition was seen true
WaitDone(t) ==
    /\ Running
    /\ thr[t].pc = "rw_wait"
    /\ p_info.state_lock = NoThread
    /\ check_not_in_flight(p_info)
    /\ thr' = [thr EXCEPT ![t].pc = "rw_reacquire", ![t].wait_rv = 0]
    /\ UNCHANGED <<sg, dt, probe, req, p_info, hw, mm, files, unmap_busy>>

\* wait_event_interruptible() returning -ERESTARTSYS: the condition was seen
\* false and a signal is pending
WaitInterrupted(t) ==
    /\ Running
    /\ thr[t].pc = "rw_wait"
    /\ p_info.state_lock = NoThread
    /\ ~check_not_in_flight(p_info)
    /\ thr' = [thr EXCEPT ![t].pc = "rw_reacquire", ![t].wait_rv = -ERESTARTSYS]
    /\ UNCHANGED <<sg, dt, probe, req, p_info, hw, mm, files, unmap_busy>>

\* down_timeout( &p_info->sem, SEM_TAKE_TIMEOUT ) returning 0
Reacquire(t) ==
    /\ Running
    /\ thr[t].pc = "rw_reacquire"
    /\ p_info.sem > 0
    /\ p_info' = [p_info EXCEPT !.sem = @ - 1]
    /\ thr' = [thr EXCEPT ![t].pc = "inspect_lock"]
    /\ UNCHANGED <<sg, dt, probe, req, hw, mm, files, unmap_busy>>

\* reacquire_timed_out that goes on to the critical section without the semaphore.
reacquire_timed_out_goes_on(th) == [th EXCEPT !.pc = "inspect_lock"]

\* if ( down_timeout( &p_info->sem, SEM_TAKE_TIMEOUT ) ) { printk; goto noup_out; }
reacquire_timed_out(th) == [th EXCEPT !.pc = "ret"]

\* down_timeout() timing out while another thread holds the semaphore
ReacquireTimeout(t) ==
    /\ Running
    /\ thr[t].pc = "rw_reacquire"
    /\ p_info.sem = 0
    /\ thr' = [thr EXCEPT ![t] = reacquire_timed_out(thr[t])]
    /\ UNCHANGED <<sg, dt, probe, req, p_info, hw, mm, files, unmap_busy>>

\* spin_lock_irq(&p_info->state_lock) after the wait
InspectLock(t) ==
    /\ Running
    /\ thr[t].pc = "inspect_lock"
    /\ p_info.state_lock = NoThread
    /\ p_info' = [p_info EXCEPT !.state_lock = t]
    /\ thr' = [thr EXCEPT ![t].pc = "inspect"]
    /\ UNCHANGED <<sg, dt, probe, req, hw, mm, files, unmap_busy>>

\* must_terminate without the test of the state.
must_terminate_on_any_interrupt(p, wait_rv) == wait_rv = -ERESTARTSYS

\* if ( p_info->state == DMA_IN_FLIGHT && -ERESTARTSYS == wait_rv )
must_terminate(p, wait_rv) == p.state = "DMA_IN_FLIGHT" /\ wait_rv = -ERESTARTSYS

\* inspect_section that returns without spin_unlock_irq.
inspect_section_keeps_state_lock(w, wait_rv) ==
    LET w1 == IF must_terminate(w.p, wait_rv)
              THEN [w EXCEPT !.hw = dmaengine_terminate_all(w.hw)]
              ELSE w
    IN  ezdma_unprepare_after_dma(w1)

\* inspect_section with the teardown before the termination.
inspect_section_unprepare_first(w, wait_rv) ==
    LET w1 == ezdma_unprepare_after_dma(w)
        w2 == IF must_terminate(w.p, wait_rv)
              THEN [w1 EXCEPT !.hw = dmaengine_terminate_all(w1.hw)]
              ELSE w1
    IN  [w2 EXCEPT !.p.state_lock = NoThread]

\* The critical section after the wait: terminate if needed, then unprepare, unlock.
inspect_section(w, wait_rv) ==
    LET w1 == IF must_terminate(w.p, wait_rv)
              THEN [w EXCEPT !.hw = dmaengine_terminate_all(w.hw)]
              ELSE w
    IN  [ezdma_unprepare_after_dma(w1) EXCEPT !.p.state_lock = NoThread]

Inspect(t) ==
    /\ Running
    /\ thr[t].pc = "inspect"
    /\ Commit(inspect_section(World, thr[t].wait_rv))
    /\ thr' = [thr EXCEPT ![t] =
                 IF must_terminate(p_info, thr[t].wait_rv)
                 THEN [@ EXCEPT !.pc = "rw_out", !.rv = thr[t].wait_rv,
                                !.terminated = TRUE]
                 ELSE [@ EXCEPT !.pc = "rw_out"]]
    /\ UNCHANGED <<sg, dt, probe, req, files>>

\* out: up( &p_info->sem ); return rv;
RwOut(t) ==
    /\ Running
    /\ thr[t].pc = "rw_out"
    /\ p_info' = [p_info EXCEPT !.sem = @ + 1]
    /\ thr' = [thr EXCEPT ![t].pc = "ret"]
    /\ UNCHANGED <<sg, dt, probe, req, hw, mm, files, unmap_busy>>

(* ----------------------------------------------------------- ezdma_release *)
\* atomic_set( &p_info->accepting, 0 ), on release of the open file
ReleaseCall(t) ==
    /\ Running
    /\ thr[t].pc = "idle"
    /\ files > 0
    /\ files' = files - 1
    /\ p_info' = [p_info EXCEPT !.accepting = FALSE]
    /\ thr' = [thr EXCEPT ![t] = [ZeroThread EXCEPT !.pc = "rel_down", !.op = "release"]]
    /\ UNCHANGED <<sg, dt, probe, req, hw, mm, unmap_busy>>

ReleaseDown(t) ==
    /\ Running
    /\ thr[t].pc = "rel_down"
    /\ p_info.sem > 0
    /\ p_info' = [p_info EXCEPT !.sem = @ - 1]
    /\ thr' = [thr EXCEPT ![t].pc = "rel_body"]
    /\ UNCHANGED <<sg, dt, probe, req, hw, mm, files, unmap_busy>>

ReleaseInterrupted(t) ==
    /\ Running
    /\ thr[t].pc = "rel_down"
    /\ p_info.sem = 0
    /\ thr' = [thr EXCEPT ![t].pc = "ret", ![t].rv = -ERESTARTSYS]
    /\ UNCHANGED <<sg, dt, probe, req, p_info, hw, mm, files, unmap_busy>>

\* ezdma_release_body that also puts the state back to DMA_IDLE.
ezdma_release_body_resets_state(w) ==
    [w EXCEPT !.hw = dmaengine_terminate_all(w.hw),
              !.p.in_use = FALSE,
              !.p.state = "DMA_IDLE",
              !.p.sem = @ + 1]

\* dmaengine_terminate_all(p_info->chan); p_info->in_use = 0; up( &p_info->sem );
ezdma_release_body(w) ==
    [w EXCEPT !.hw = dmaengine_terminate_all(w.hw),
              !.p.in_use = FALSE,
              !.p.sem = @ + 1]

ReleaseBody(t) ==
    /\ Running
    /\ thr[t].pc = "rel_body"
    /\ Commit(ezdma_release_body(World))
    /\ thr' = [thr EXCEPT ![t].pc = "ret", ![t].rv = 0, ![t].terminated = TRUE]
    /\ UNCHANGED <<sg, dt, probe, req, files>>

\* The file operation returns rv to its caller.
\* The page accounting of a context that no longer exists ends with the call
\* that set it up.
Return(t) ==
    /\ thr[t].pc = "ret"
    /\ thr' = [thr EXCEPT ![t] = ZeroThread]
    /\ mm' = IF mm.owner = t /\ p_info.inflight.pinned_pages = "NULL"
             THEN ZeroBuffer ELSE mm
    /\ hw' = IF hw.owner = t THEN [hw EXCEPT !.owner = NoThread] ELSE hw
    /\ unmap_busy' = FALSE
    /\ UNCHANGED <<sg, dt, probe, req, p_info, files>>

(* ------------------------------------------- the engine and its completion *)
\* The engine finishes the active descriptor and schedules the completion tasklet.
HwComplete ==
    /\ Running
    /\ hw.active
    /\ hw' = [hw EXCEPT !.active = FALSE, !.owner = NoThread, !.tasklet = TRUE]
    /\ thr' = IF hw.owner \in Threads
              THEN [thr EXCEPT ![hw.owner].hw_done = TRUE] ELSE thr
    /\ UNCHANGED <<sg, dt, probe, req, p_info, mm, files, unmap_busy>>

\* ezdma_dmaengine_callback_func: spin_lock_irqsave(&p_info->state_lock, iflags)
CallbackLock ==
    /\ Running
    /\ hw.tasklet
    /\ p_info.state_lock = NoThread
    /\ p_info' = [p_info EXCEPT !.state_lock = CB]
    /\ hw' = [hw EXCEPT !.tasklet = FALSE]
    /\ UNCHANGED <<sg, dt, probe, req, mm, thr, files, unmap_busy>>

\* ezdma_dmaengine_callback_func without the test of the state.
ezdma_dmaengine_callback_func_no_state_test(p) ==
    [p EXCEPT !.state = "DMA_COMPLETING", !.state_lock = NoThread]

\* if ( DMA_IN_FLIGHT == p_info->state ) { state = DMA_COMPLETING; wake_up }; unlock
ezdma_dmaengine_callback_func(p) ==
    IF p.state = "DMA_IN_FLIGHT"
    THEN [p EXCEPT !.state = "DMA_COMPLETING", !.state_lock = NoThread]
    ELSE [p EXCEPT !.state_lock = NoThread]

Callback ==
    /\ Running
    /\ p_info.state_lock = CB
    /\ p_info' = ezdma_dmaengine_callback_func(p_info)
    /\ thr' = IF /\ p_info.state = "DMA_IN_FLIGHT"
                 /\ p_info'.state = "DMA_COMPLETING"
                 /\ mm.owner \in Threads
                 /\ thr[mm.owner].pc = "rw_wait"
              THEN [thr EXCEPT ![mm.owner].signalled = TRUE] ELSE thr
    /\ UNCHANGED <<sg, dt, probe, req, hw, mm, files, unmap_busy>>

(* ------------------------------------------- create_devices / teardown_devices *)
\* What the entry at one index of "dma-names" / "ezdma,dirs" leads to:
\*   ok               every step of the iteration succeeds
\*   no_mem           devm_kzalloc() of the ezdma_drvdata fails
\*   bad_name         of_property_read_string_index() fails
\*   bad_dir          of_property_read_u32_index() fails
\*   unsupported_dir  the direction is neither EZDMA_CPU_TO_DEV nor EZDMA_DEV_TO_CPU
\*   create_fail      ezdma_create_device() fails
\*   no_channel       dma_request_slave_channel() returns NULL
EntryKinds ==
    {"ok", "no_mem", "bad_name", "bad_dir", "unsupported_dir", "create_fail", "no_channel"}

DeviceTrees == UNION { [1..n -> EntryKinds] : n \in 0..MaxChannels }

\* devm_kzalloc'ed ezdma_drvdata, as far as enumeration is concerned.
ZeroDevice ==
    [ ezdma_dev |-> FALSE, chan |-> FALSE, registered |-> FALSE, chan_held |-> FALSE ]

\* One iteration of the for loop of create_devices for entry e: the probe
\* record after it; pc is "teardown_check" after a break, else "loop".
create_devices_iteration(pr, e) ==
    LET brk(rv, list) == [pr EXCEPT !.outer_rv = rv, !.ezdma_list = list,
                                    !.pc = "teardown_check"]
        added == Append(pr.ezdma_list, ZeroDevice)
        k     == Len(added)
    IN  IF e = "no_mem" THEN brk(-ENOMEM, pr.ezdma_list)
        ELSE IF e = "bad_name" THEN brk(-EINVAL, added)
        ELSE IF e = "bad_dir" THEN brk(-EINVAL, added)
        ELSE IF e = "unsupported_dir" THEN brk(-EINVAL, added)
        ELSE IF e = "create_fail" THEN brk(-ENOMEM, added)
        ELSE IF e = "no_channel"
             THEN [pr EXCEPT !.outer_rv = -EPROBE_DEFER,
                             !.ezdma_list = [added EXCEPT ![k].ezdma_dev = TRUE,
                                                          ![k].registered = TRUE],
                             !.dma_name_idx = @ + 1]
        ELSE [pr EXCEPT !.ezdma_list = [added EXCEPT ![k].ezdma_dev = TRUE,
                                                     ![k].registered = TRUE,
                                                     ![k].chan = TRUE,
                                                     ![k].chan_held = TRUE],
                        !.dma_name_idx = @ + 1]

\* teardown_devices: every entry of the list loses its channel and its device.
teardown_devices(list) ==
    [i \in 1..Len(list) |->
        [list[i] EXCEPT !.chan_held = IF list[i].chan THEN FALSE ELSE @,
                        !.registered = IF list[i].ezdma_dev THEN FALSE ELSE @]]

\* num_dma_names = of_property_count_strings(...); 0 names is -ENODEV
ProbeCount ==
    /\ probe.pc = "start"
    /\ probe' = IF Len(dt) = 0
                THEN [probe EXCEPT !.pc = "done", !.rv = -ENODEV]
                ELSE [probe EXCEPT !.pc = "loop"]
    /\ UNCHANGED <<sg, dt, p_info, hw, mm, thr, req, files, unmap_busy>>

\* for (dma_name_idx = 0; dma_name_idx < num_dma_names; dma_name_idx++) { ... }
ProbeIteration ==
    /\ probe.pc = "loop"
    /\ probe.dma_name_idx < Len(dt)
    /\ probe' = create_devices_iteration(probe, dt[probe.dma_name_idx + 1])
    /\ UNCHANGED <<sg, dt, p_info, hw, mm, thr, req, files, unmap_busy>>

\* the loop condition fails
ProbeLoopEnd ==
    /\ probe.pc = "loop"
    /\ probe.dma_name_idx >= Len(dt)
    /\ probe' = [probe EXCEPT !.pc = "teardown_check"]
    /\ UNCHANGED <<sg, dt, p_info, hw, mm, thr, req, files, unmap_busy>>

\* if ( outer_rv ) teardown_devices( p_pdev_info, pdev );  return outer_rv;
ProbeReturn ==
    /\ probe.pc = "teardown_check"
    /\ probe' = [probe EXCEPT !.pc = "done", !.rv = probe.outer_rv,
                              !.ezdma_list = IF probe.outer_rv # 0
                                             THEN teardown_devices(@) ELSE @]
    /\ UNCHANGED <<sg, dt, p_info, hw, mm, thr, req, files, unmap_busy>>

ProbeInit ==
    /\ DeviceInit(EZDMA_DEV_TO_CPU)
    /\ req = [count |-> 1, userbuf |-> 0]
    /\ dt \in DeviceTrees
    /\ probe = [ pc |-> "start", dma_name_idx |-> 0, outer_rv |-> 0, rv |-> 0,
                 ezdma_list |-> << >> ]
    /\ sg = NoSg

ProbeNext == ProbeCount \/ ProbeIteration \/ ProbeLoopEnd \/ ProbeReturn

\* The enumeration of the channels at probe time, on its own.
ProbeSpec == ProbeInit /\ [][ProbeNext]_vars

(* ------------------------------------ the scatterlist construction on its own *)
\* num_pages = (offset_in_page(userbuf) + count + PAGE_SIZE-1) / PAGE_SIZE
SgNumPages ==
    /\ sg.pc = "start"
    /\ sg' = [sg EXCEPT !.pc = "build", !.num_pages = NumPages(req.userbuf, req.count)]
    /\ UNCHANGED <<dt, probe, p_info, hw, mm, thr, req, files, unmap_busy>>

\* The for_each_sg loop over the pinned pages, page i of the buffer in entry i.
SgBuild ==
    /\ sg.pc = "build"
    /\ sg' = [sg EXCEPT !.pc = "done",
                        !.sgl = BuildScatterlist(sg.num_pages, req.count, req.userbuf,
                                                 [i \in 1..sg.num_pages |-> i])]
    /\ UNCHANGED <<dt, probe, p_info, hw, mm, thr, req, files, unmap_busy>>

SgInit ==
    /\ DeviceInit(EZDMA_DEV_TO_CPU)
    /\ req \in [count : 1..SgMaxCount, userbuf : 0..SgMaxBuf]
    /\ dt = << >>
    /\ probe = [ pc |-> "start", dma_name_idx |-> 0, outer_rv |-> 0, rv |-> 0,
                 ezdma_list |-> << >> ]
    /\ sg = [ pc |-> "start", num_pages |-> 0, sgl |-> << >> ]

SgNext == SgNumPages \/ SgBuild

\* The page count and the scatterlist for every buffer address and length.
SgSpec == SgInit /\ [][SgNext]_vars

(* ---------------------------------------------------------- specification *)
ThreadStep(t) ==
    \/ OpenCall(t) \/ OpenDown(t) \/ OpenInterrupted(t) \/ OpenBody(t)
    \/ RwCall(t) \/ RwDown(t) \/ RwInterrupted(t) \/ RwAccepting(t)
    \/ PrepBug(t) \/ PrepAlloc(t) \/ PrepSgAlloc(t) \/ PrepPin(t) \/ PrepMap(t)
    \/ PrepDesc(t) \/ SubmitLock(t) \/ Submit(t) \/ ErrOutLock(t) \/ ErrOutUnprepare(t)
    \/ PrepReturn(t) \/ WaitDone(t) \/ WaitInterrupted(t)
    \/ Reacquire(t) \/ ReacquireTimeout(t) \/ InspectLock(t) \/ Inspect(t) \/ RwOut(t)
    \/ ReleaseCall(t) \/ ReleaseDown(t) \/ ReleaseInterrupted(t) \/ ReleaseBody(t)
    \/ Return(t)

Next ==
    \/ \E t \in Threads : ThreadStep(t)
    \/ HwComplete
    \/ CallbackLock
    \/ Callback

Spec == Init /\ [][Next]_vars

\* The steps of thread t that the scheduler takes by itself once t is inside a
\* file operation: all but the entry of a new call and the arrival of a signal
\* or of a timeout.
ThreadRuns(t) ==
    \/ OpenDown(t) \/ OpenBody(t)
    \/ RwDown(t) \/ RwAccepting(t)
    \/ PrepAlloc(t) \/ PrepSgAlloc(t) \/ PrepPin(t) \/ PrepMap(t)
    \/ PrepDesc(t) \/ SubmitLock(t) \/ Submit(t) \/ ErrOutLock(t) \/ ErrOutUnprepare(t)
    \/ PrepReturn(t) \/ WaitDone(t)
    \/ Reacquire(t) \/ InspectLock(t) \/ Inspect(t) \/ RwOut(t)
    \/ ReleaseDown(t) \/ ReleaseBody(t)
    \/ Return(t)

\* One read buffer and request, as in Init.
FairInit ==
    /\ DeviceInit(EZDMA_DEV_TO_CPU)
    /\ req = [count |-> 1, userbuf |-> 0]
    /\ dt = << "ok" >>
    /\ probe = [ pc |-> "done", dma_name_idx |-> 1, outer_rv |-> 0, rv |-> 0,
                 ezdma_list |-> << [ezdma_dev |-> TRUE, chan |-> TRUE,
                                    registered |-> TRUE, chan_held |-> TRUE] >> ]
    /\ sg = NoSg

\* The driver under fair scheduling: a thread that can run again and again
\* does run (a waiter whose condition holds is woken, the semaphore is handed
\* to each waiter in turn), the engine finishes an active descriptor, a
\* scheduled tasklet runs.
FairSpec ==
    /\ FairInit
    /\ [][Next]_vars
    /\ \A t \in Threads : SF_vars(ThreadRuns(t))
    /\ WF_vars(HwComplete)
    /\ WF_vars(CallbackLock)
    /\ WF_vars(Callback)

TypeOK ==
    /\ p_info.sem \in 0..1
    /\ p_info.state \in {"DMA_IDLE", "DMA_IN_FLIGHT", "DMA_COMPLETING"}
    /\ p_info.state_lock \in {NoThread, CB} \cup Threads
    /\ files \in 0..1

(* ---------------------------------------------------------------- claims *)
IsRw(t) == thr[t].op \in {"read", "write"}
Returns(t) == thr[t].pc = "ret"

\* The threads that hold the semaphore, by their position in the code.
SemHolders ==
    {t \in Threads : thr[t].pc \in
        {"open_body", "rw_accepting", "prep_alloc", "prep_sg_alloc", "prep_pin",
         "prep_map", "prep_desc", "submit_lock", "submit", "err_out",
         "err_unprepare", "prep_ret", "inspect_lock", "inspect", "rw_out",
         "rel_body", "BUG"}}

\* No transfer context is held: no page array, no table, no mapping, no pin.
NoContext ==
    /\ p_info.inflight.pinned_pages = "NULL"
    /\ ~p_info.inflight.table_allocated
    /\ ~p_info.inflight.dma_mapped
    /\ ~p_info.inflight.pages_pinned
    /\ \A i \in PageIdx : mm.pins[i] = 0

\* C1: when a read or write call returns, on every exit path and in both
\* directions, every page the call pinned has been released exactly once: the
\* driver holds no reference on a page of the buffer of the call's context.
C1_PinnedPagesReleasedAtReturn ==
    \A t \in Threads :
        (Returns(t) /\ IsRw(t) /\ mm.owner = t) => \A i \in PageIdx : mm.pins[i] = 0

\* C2: a read or write call returns the requested byte count, and only when
\* the engine completed the transfer the call submitted, or a negative failure
\* code; never zero, never another positive value.
C2_ReturnsCountOrFailure ==
    \A t \in Threads :
        (Returns(t) /\ IsRw(t)) =>
            \/ thr[t].rv = req.count /\ thr[t].hw_done
            \/ thr[t].rv < 0

\* C3: when a step of the preparation fails, the call returns a failure code
\* without reaching the wait, after the teardown has unwound the partial state:
\* state idle, no context left, the semaphore released.
C3_PrepareFailureFailsCleanly ==
    \A t \in Threads :
        (Returns(t) /\ IsRw(t) /\ thr[t].failed) =>
            /\ thr[t].rv < 0
            /\ ~thr[t].waited
            /\ p_info.state = "DMA_IDLE"
            /\ NoContext
            /\ p_info.sem = 1 - Cardinality(SemHolders)

\* C4: no request starts preparing a transfer while the context of a previous
\* transfer is still present: BUG_ON( p_info->inflight.pinned_pages ) never fires.
C4_OneTransferContext ==
    \A t \in Threads :
        /\ thr[t].pc # "BUG"
        /\ thr[t].pc = "prep_alloc" => p_info.inflight.pinned_pages = "NULL"

\* C5: a caller whose wait was interrupted by a signal and that finds the state
\* still DMA_IN_FLIGHT when it inspects it tells the engine to terminate before
\* any segment is unmapped or any page released, and returns -ERESTARTSYS.
C5_InterruptedInFlightTerminatesFirst ==
    [][\A t \in Threads :
         /\ ( /\ thr[t].pc = "inspect" /\ thr'[t].pc # "inspect"
              /\ p_info.state = "DMA_IN_FLIGHT"
              /\ thr[t].wait_rv = -ERESTARTSYS )
            => /\ thr'[t].terminated
               /\ ~hw'.active
               /\ ~unmap_busy'
               /\ ~p_info'.inflight.dma_mapped
               /\ thr'[t].rv = -ERESTARTSYS
               /\ thr'[t].pc = "rw_out"
         /\ (thr[t].pc = "rw_out" /\ thr'[t].pc # "rw_out")
            => (thr'[t].pc = "ret" /\ thr'[t].rv = thr[t].rv)
      ]_vars

C5_Witness ==
    \E t \in Threads :
        /\ Returns(t) /\ IsRw(t)
        /\ thr[t].waited /\ thr[t].terminated
        /\ thr[t].rv = -ERESTARTSYS

\* C6: a close that finds a transfer in flight terminates the engine and
\* completes the teardown of that transfer by the time release returns: state
\* idle, segments unmapped, pages released, context freed.
C6_CloseTearsDownInFlightTransfer ==
    [][\A t \in Threads :
         ( /\ thr[t].pc = "rel_body" /\ thr'[t].pc = "ret"
           /\ p_info.state = "DMA_IN_FLIGHT" )
         => /\ ~hw'.active
            /\ p_info'.state = "DMA_IDLE"
            /\ NoContext'
      ]_vars

\* C7: release clears accepting as its first action, before it takes the
\* semaphore; a read or write that tests accepting while it is clear fails with
\* -EBADF, prepares nothing, pins nothing, leaves the state alone and releases
\* the semaphore; accepting stays clear until an open sets it.
C7_NotAcceptingFailsFast ==
    [][\A t \in Threads :
         /\ (thr[t].pc = "idle" /\ thr'[t].op = "release")
            => /\ ~p_info'.accepting
               /\ p_info'.sem = p_info.sem
               /\ thr'[t].pc = "rel_down"
         /\ (thr[t].pc = "rw_accepting" /\ thr'[t].pc # "rw_accepting" /\ ~p_info.accepting)
            => /\ thr'[t].rv = -EBADF
               /\ thr'[t].pc = "rw_out"
               /\ UNCHANGED <<p_info, hw, mm>>
         /\ (thr[t].pc = "rw_out" /\ thr'[t].pc # "rw_out" /\ thr[t].rv = -EBADF)
            => /\ thr'[t].pc = "ret"
               /\ thr'[t].rv = -EBADF
               /\ p_info' = [p_info EXCEPT !.sem = @ + 1]
               /\ UNCHANGED <<hw, mm>>
         /\ (~p_info.accepting /\ p_info'.accepting)
            => \E u \in Threads : thr[u].pc = "open_body" /\ thr'[u].pc = "ret"
      ]_vars

C7_Witness ==
    \E t \in Threads :
        /\ Returns(t) /\ IsRw(t)
        /\ thr[t].rv = -EBADF
        /\ ~p_info.accepting

\* C8: open succeeds only when in_use is clear, and then sets it; an open on a
\* device that is in use fails with -EBUSY and changes nothing; at most one
\* open file of the device exists at any time.
C8_SingleOpener ==
    /\ [][\A t \in Threads :
            (thr[t].pc = "open_body" /\ thr'[t].pc # "open_body")
            => IF p_info.in_use
               THEN /\ thr'[t].rv = -EBUSY
                    /\ p_info' = [p_info EXCEPT !.sem = @ + 1]
                    /\ files' = files
               ELSE /\ thr'[t].rv = 0
                    /\ p_info'.in_use
                    /\ files' = files + 1
         ]_vars
    /\ [](files <= 1)
    /\ [](files = 1 => p_info.in_use)

C8_Witness ==
    \E t \in Threads :
        /\ Returns(t) /\ thr[t].op = "open"
        /\ thr[t].rv = -EBUSY
        /\ files = 1

\* The request does not fit the device: a read on a CPU-to-device channel, a
\* write on a device-to-CPU channel, or a length that is no multiple of the
\* alignment.
Mismatched(op) ==
    \/ (op = "read"  /\ p_info.dir = EZDMA_CPU_TO_DEV)
    \/ (op = "write" /\ p_info.dir = EZDMA_DEV_TO_CPU)
    \/ req.count % EZDMA_ALIGN_BYTES # 0

\* C9: a read or write that does not fit the device is refused at once with
\* -EINVAL, before the semaphore is taken, with no page pinned and nothing of
\* the device (state, inflight, in_use, accepting) changed.
C9_MismatchRejectedAtOnce ==
    [][\A t \in Threads :
         ( /\ thr[t].pc = "idle"
           /\ thr'[t].op \in {"read", "write"}
           /\ Mismatched(thr'[t].op) )
         => /\ thr'[t].pc = "ret"
            /\ thr'[t].rv = -EINVAL
            /\ UNCHANGED <<p_info, hw, mm>>
      ]_vars

C9_Witness ==
    \E t \in Threads :
        /\ Returns(t)
        /\ thr[t].op = "read" /\ p_info.dir = EZDMA_CPU_TO_DEV
        /\ thr[t].rv = -EINVAL
        /\ files > 0

\* C10: a read or write whose transfer was submitted and whose completion
\* callback fires while the caller waits returns the requested byte count,
\* after the transfer is torn down and the semaphore released.
C10_SignalledTransferReturnsCount ==
    \A t \in Threads :
        (Returns(t) /\ IsRw(t) /\ thr[t].signalled) =>
            /\ thr[t].rv = req.count
            /\ p_info.state = "DMA_IDLE"
            /\ p_info.inflight.pinned_pages = "NULL"
            /\ ~p_info.inflight.table_allocated
            /\ ~p_info.inflight.dma_mapped
            /\ p_info.sem = 1 - Cardinality(SemHolders)

\* C11: when the semaphore cannot be re-acquired after the wait within the
\* timeout, the call returns a failure code and not the requested byte count.
C11_ReacquireTimeoutReturnsFailure ==
    [][\A t \in Threads :
         (thr[t].pc = "rw_reacquire" /\ thr'[t].pc = "ret")
         => (thr'[t].rv < 0 /\ thr'[t].rv # req.count)
      ]_vars

\* C12: a read or write whose first acquire of the semaphore is interrupted by
\* a signal returns -ERESTARTSYS at once: the device, the engine and the pages
\* are unchanged (nothing pinned, allocated or submitted, state and semaphore
\* untouched).
C12_InterruptedAcquireTouchesNothing ==
    [][\A t \in Threads :
         (thr[t].pc = "rw_down" /\ thr'[t].pc # "rw_down" /\ p_info.sem = 0)
         => /\ thr'[t].pc = "ret"
            /\ thr'[t].rv = -ERESTARTSYS
            /\ UNCHANGED <<p_info, hw, mm>>
      ]_vars

C12_Witness ==
    \E t \in Threads :
        /\ Returns(t) /\ IsRw(t)
        /\ thr[t].rv = -ERESTARTSYS
        /\ ~thr[t].waited /\ ~thr[t].failed
        /\ p_info.sem = 0

\* The device of the entry at index i exists and has its channel.
Available(i) ==
    /\ i <= Len(probe.ezdma_list)
    /\ probe.ezdma_list[i].registered
    /\ probe.ezdma_list[i].chan_held

\* The entries whose configuration is invalid or missing.
InvalidEntries == {"bad_name", "bad_dir", "unsupported_dir"}

\* C13: when create_devices has returned and nothing but the configuration
\* of some entries was wrong, an invalid entry has aborted the creation of its
\* own channel only: the device of every valid entry, before or after it,
\* exists and has its channel.
C13_InvalidEntryAbortsOnlyItsChannel ==
    ( /\ probe.pc = "done"
      /\ \A i \in 1..Len(dt) : dt[i] \in {"ok"} \cup InvalidEntries )
    => \A i \in 1..Len(dt) : (dt[i] = "ok" => Available(i))

\* C14: whenever a read or write call returns, on any exit path, the state of
\* the device is DMA_IDLE and nothing of the transfer context the call set up
\* is left: no page array, no table, no mapping, no pinned page.
C14_IdleAtEveryReturn ==
    \A t \in Threads :
        (Returns(t) /\ IsRw(t) /\ mm.owner = t) =>
            /\ p_info.state = "DMA_IDLE"
            /\ p_info.inflight.pinned_pages = "NULL"
            /\ ~p_info.inflight.table_allocated
            /\ ~p_info.inflight.dma_mapped
            /\ ~p_info.inflight.pages_pinned

\* A step of the completion callback: the tasklet holds state_lock and lets go.
CallbackStep == p_info.state_lock = CB /\ p_info'.state_lock # CB

C16_NoUnmapWhileEnginePending == ~unmap_busy

\* A step in which thread t runs ezdma_unprepare_after_dma.
TeardownStep(t) ==
    /\ thr[t].pc \in {"err_unprepare", "inspect"}
    /\ thr'[t].pc # thr[t].pc

\* C17: whatever progress flags are set when the teardown runs, it finishes
\* with the state DMA_IDLE and with pages_pinned, table_allocated, dma_mapped
\* and dma_started all clear.
C17_TeardownClearsEveryFlag ==
    [][\A t \in Threads :
         TeardownStep(t) =>
            /\ p_info'.state = "DMA_IDLE"
            /\ ~p_info'.inflight.pages_pinned
            /\ ~p_info'.inflight.table_allocated
            /\ ~p_info'.inflight.dma_mapped
            /\ ~p_info'.inflight.dma_started
      ]_vars

\* The teardown applied to the present state, and applied again to its result.
TornDownOnce == ezdma_unprepare_after_dma(World)
TornDownTwice == ezdma_unprepare_after_dma(TornDownOnce)

\* C18: the teardown is idempotent: run twice in sequence on the same context
\* it unmaps, releases pages, frees the table and frees the page array at most
\* once in total and leaves the state DMA_IDLE; the second run changes nothing.
\* This holds of the routine in every reachable state, and of the call that
\* tears down after the wait a context its own err_out path has torn down.
C18_TeardownIdempotent ==
    /\ [](/\ TornDownOnce.p.state = "DMA_IDLE"
          /\ TornDownTwice.p = TornDownOnce.p
          /\ TornDownTwice.mm = TornDownOnce.mm
          /\ TornDownTwice.hw = TornDownOnce.hw
          /\ \A i \in PageIdx : TornDownTwice.mm.pins[i] >= 0)
    /\ [][\A t \in Threads :
            ( /\ thr[t].pc = "inspect" /\ thr'[t].pc = "rw_out"
              /\ thr[t].failed /\ mm.owner = t )
            => /\ p_info' = [p_info EXCEPT !.state_lock = NoThread]
               /\ p_info'.state = "DMA_IDLE"
               /\ UNCHANGED <<hw, mm>>
         ]_vars

\* A call has run the teardown a second time on the context it set up.
C18_Witness ==
    \E t \in Threads :
        /\ thr[t].pc = "rw_out" /\ thr[t].failed /\ thr[t].waited
        /\ mm.owner = t
        /\ p_info.dir = EZDMA_DEV_TO_CPU

\* C19: outside the critical sections of state_lock, the state DMA_IN_FLIGHT
\* goes with a transfer context (page array allocated, pages pinned, segments
\* mapped) and with a submission issued to the engine (dma_started set).
C19_InFlightHasStartedContext ==
    (p_info.state_lock = NoThread /\ p_info.state = "DMA_IN_FLIGHT") =>
        /\ p_info.inflight.pinned_pages # "NULL"
        /\ p_info.inflight.table_allocated
        /\ p_info.inflight.pages_pinned
        /\ p_info.inflight.dma_mapped
        /\ p_info.inflight.dma_started
        /\ \A i \in 1..p_info.inflight.num_pages : mm.pins[i] > 0

C19_Witness ==
    /\ p_info.state_lock = NoThread
    /\ p_info.state = "DMA_IN_FLIGHT"
    /\ \E t \in Threads : thr[t].pc = "rw_wait"

\* C20: the completion callback takes state_lock and nothing else; holding it,
\* it moves DMA_IN_FLIGHT to DMA_COMPLETING, which lets the waiters go on, and
\* in any other state it changes nothing: state, inflight, in_use, accepting
\* and the semaphore are as before. It never waits for the semaphore.
C20_CallbackFrame ==
    /\ [][/\ ( (p_info.state_lock # CB /\ p_info'.state_lock = CB)
                => ( /\ p_info' = [p_info EXCEPT !.state_lock = CB]
                     /\ UNCHANGED <<mm, thr, files>> ) )
           /\ ( CallbackStep
                => ( /\ p_info' = IF p_info.state = "DMA_IN_FLIGHT"
                                  THEN [p_info EXCEPT !.state = "DMA_COMPLETING",
                                                      !.state_lock = NoThread]
                                  ELSE [p_info EXCEPT !.state_lock = NoThread]
                     /\ check_not_in_flight(p_info')
                     /\ UNCHANGED <<hw, mm, files>> ) )
         ]_vars
    /\ []((p_info.state_lock = CB /\ Running) => ENABLED Callback)

\* The callback has moved a transfer in flight to DMA_COMPLETING for its waiter.
C20_Witness ==
    /\ p_info.state = "DMA_COMPLETING"
    /\ p_info.state_lock = NoThread
    /\ \E t \in Threads : thr[t].signalled /\ thr[t].pc = "rw_wait"

\* The positions inside a critical section of state_lock.
InStateLock == {"submit", "err_unprepare", "inspect"}

\* Thread t takes a step: every step of a thread moves its position.
Steps(t) == thr'[t].pc # thr[t].pc

\* C21: in_use is changed, a transfer context is set up and the teardown is
\* run only by a thread that holds the semaphore; the state is written, and
\* read, only by a context that holds state_lock, and the waiters are let go
\* only by the callback while it holds state_lock.
C21_LockDiscipline ==
    /\ [](p_info.sem = 1 - Cardinality(SemHolders))
    /\ [](\A t \in Threads : thr[t].pc \in InStateLock <=> p_info.state_lock = t)
    /\ [][/\ ( (p_info'.in_use # p_info.in_use \/ p_info'.inflight # p_info.inflight)
                => \E t \in SemHolders : Steps(t) )
           /\ ( p_info'.state # p_info.state
                => \/ p_info.state_lock = CB
                   \/ \E t \in Threads : p_info.state_lock = t /\ Steps(t) )
           /\ ( \A t \in Threads :
                  (thr[t].pc = "rw_wait" /\ Steps(t)) => p_info.state_lock = NoThread )
         ]_vars

\* A caller that holds the semaphore has torn down its completed transfer.
C21_Witness ==
    \E t \in Threads :
        /\ thr[t].pc = "rw_out" /\ thr[t].waited /\ thr[t].hw_done
        /\ p_info.sem = 0 /\ p_info.in_use
        /\ p_info.state = "DMA_IDLE"

\* The positions at which a thread is about to take the semaphore.
AtDown == {"open_down", "rw_down", "rel_down", "rw_reacquire"}

\* The next step of the context that holds state_lock can be taken.
HolderCanStep ==
    /\ p_info.state_lock = CB => ENABLED Callback
    /\ \A t \in Threads :
          p_info.state_lock = t =>
              ENABLED (Submit(t) \/ ErrOutUnprepare(t) \/ Inspect(t))

\* C22: a thread takes state_lock only while it holds the semaphore, so the
\* semaphore is always taken first; no thread waits for the semaphore while it
\* holds state_lock; the callback holds state_lock only. The holder of
\* state_lock never waits for anything, so no state is a deadlock on the two
\* locks.
C22_LockOrder ==
    /\ [][\A t \in Threads :
            (p_info.state_lock # t /\ p_info'.state_lock = t)
            => (t \in SemHolders /\ p_info.state_lock = NoThread)
         ]_vars
    /\ [](\A t \in Threads :
            /\ p_info.state_lock = t => (t \in SemHolders /\ p_info.sem = 0)
            /\ thr[t].pc \in AtDown => p_info.state_lock # t)
    /\ []((p_info.state_lock # NoThread /\ Running) => HolderCanStep)

\* A caller holds the semaphore and state_lock while the callback waits for
\* state_lock.
C22_Witness ==
    /\ hw.tasklet
    /\ \E t \in Threads :
          /\ p_info.state_lock = t /\ thr[t].pc = "inspect"
          /\ p_info.sem = 0

\* C23: a caller whose wait was interrupted and that finds the state already
\* DMA_COMPLETING when it inspects it under state_lock does not terminate the
\* engine and returns the requested byte count; the engine is terminated and
\* -ERESTARTSYS returned only when the state is still DMA_IN_FLIGHT at the
\* inspection of an interrupted wait.
C23_InterruptedButCompletingReturnsCount ==
    /\ [][\A t \in Threads :
            (thr[t].pc = "inspect" /\ Steps(t)) =>
               /\ ( (thr[t].wait_rv = -ERESTARTSYS /\ p_info.state = "DMA_COMPLETING")
                    => /\ hw' = hw
                       /\ ~thr'[t].terminated
                       /\ thr'[t].rv = req.count
                       /\ thr'[t].pc = "rw_out" )
               /\ ( (thr'[t].terminated \/ thr'[t].rv = -ERESTARTSYS)
                    => (thr[t].wait_rv = -ERESTARTSYS /\ p_info.state = "DMA_IN_FLIGHT") )
         ]_vars
    /\ [](\A t \in Threads :
            (Returns(t) /\ IsRw(t) /\ thr[t].waited /\ ~thr[t].terminated)
            => thr[t].rv = req.count)

\* An interrupted call returns the byte count: the callback came first.
C23_Witness ==
    \E t \in Threads :
        /\ Returns(t) /\ IsRw(t)
        /\ thr[t].wait_rv = -ERESTARTSYS
        /\ ~thr[t].terminated /\ ~thr[t].failed
        /\ thr[t].rv = req.count
        /\ p_info.state = "DMA_IDLE"

\* The pages the context holds pinned.
PinnedPages == {i \in PageIdx : mm.pins[i] > 0}

\* C24: a teardown that finds pages pinned marks them dirty if and only if the
\* device is device-to-CPU and the transfer was started, and then marks every
\* pinned page; in every case it releases every pinned page: those of a
\* CPU-to-device transfer and of a transfer that never started are released
\* without a dirty mark.
C24_DirtyIffReadStarted ==
    [][\A t \in Threads :
         (TeardownStep(t) /\ p_info.inflight.pages_pinned) =>
            /\ mm'.dirty =
                  IF p_info.dir = EZDMA_DEV_TO_CPU /\ p_info.inflight.dma_started
                  THEN mm.dirty \cup PinnedPages ELSE mm.dirty
            /\ \A i \in PinnedPages : mm'.pins[i] = mm.pins[i] - 1
      ]_vars

\* The least n with n * d >= x.
Ceil(x, d) == CHOOSE n \in 0..x : (n - 1) * d < x /\ x <= n * d

RECURSIVE SumLengths(_)
SumLengths(sgl) == IF sgl = << >> THEN 0 ELSE Head(sgl).length + SumLengths(Tail(sgl))

\* C25: for every buffer address and length, the page count computed is
\* ceil((offset in page + length) / PAGE_SIZE), and the first entry of the
\* scatterlist is no longer than PAGE_SIZE - offset in page.
C25_PageCountAndFirstSegment ==
    /\ sg.pc \in {"build", "done"} =>
          sg.num_pages = Ceil((req.userbuf % PAGE_SIZE) + req.count, PAGE_SIZE)
    /\ sg.pc = "done" =>
          sg.sgl[1].length <= PAGE_SIZE - (req.userbuf % PAGE_SIZE)

\* A buffer that starts inside a page and spans three pages or more; its first
\* entry ends at the page end.
C25_Witness ==
    /\ sg.pc = "done"
    /\ req.userbuf % PAGE_SIZE # 0
    /\ sg.num_pages >= 3
    /\ sg.sgl[1].length = PAGE_SIZE - (req.userbuf % PAGE_SIZE)

\* C26: the scatterlist covers the buffer exactly: one entry per page, the
\* first at the offset of the buffer in its page and every later one at
\* offset 0, each of length 1..PAGE_SIZE and inside its page, and the lengths
\* add up to the length of the request.
C26_ScatterlistCoversBuffer ==
    sg.pc = "done" =>
        /\ Len(sg.sgl) = sg.num_pages
        /\ sg.sgl[1].offset = req.userbuf % PAGE_SIZE
        /\ \A i \in 1..Len(sg.sgl) :
              /\ i > 1 => sg.sgl[i].offset = 0
              /\ sg.sgl[i].page = i
              /\ sg.sgl[i].length \in 1..PAGE_SIZE
              /\ sg.sgl[i].offset + sg.sgl[i].length <= PAGE_SIZE
        /\ SumLengths(sg.sgl) = req.count

\* A buffer that starts inside a page, spans three pages or more and ends
\* inside its last page.
C26_Witness ==
    /\ sg.pc = "done"
    /\ Len(sg.sgl) >= 3
    /\ sg.sgl[1].offset # 0
    /\ sg.sgl[Len(sg.sgl)].length < PAGE_SIZE
    /\ SumLengths(sg.sgl) = req.count

\* C27: under fair scheduling a caller that waits on its transfer eventually
\* leaves the wait, whether the engine completes the transfer or a release of
\* the file terminates it, without a signal being needed.
C27_BlockedCallerEventuallyReturns ==
    \A t \in Threads :
        (thr[t].pc = "rw_wait" /\ p_info.state = "DMA_IN_FLIGHT")
            ~> (thr[t].pc # "rw_wait")

\* The release of a file has returned.
ReleaseReturns(t) == Returns(t) /\ thr[t].op = "release"

\* C28: when release returns, whatever it returns, in_use is clear, so that
\* the next open succeeds: open, close, open never yields -EBUSY.
C28_ReleaseClearsInUse ==
    \A t \in Threads : ReleaseReturns(t) => ~p_info.in_use

====
